---- MODULE Spec2Model ----
(***************************************************************************)
(* Free Shipping Bar (src/main.py): the OAuth installation flow, the       *)
(* session-token protected settings API, the app/uninstalled webhook and   *)
(* the widget generator, as a state machine over the two tables (shops,    *)
(* settings), the in-memory OAuth state cache and the platform's script    *)
(* tag list.                                                               *)
(*                                                                         *)
(* A shop domain is the sequence of its dot-separated labels, so that      *)
(* str.endswith(".myshopify.com") is a computation on the value.  A text   *)
(* is a sequence of atoms, each a character or a run of characters.  A     *)
(* /callback request is a coroutine that is suspended at each outbound     *)
(* platform call; every other handler runs to completion in one step.      *)
(* Shop.installed_at is not read anywhere and is left out.  The script     *)
(* widget_js generates is modelled by the literals it embeds and by its    *)
(* tick in the storefront page (cart fetch, updateBar).                    *)
(***************************************************************************)
EXTENDS Integers, Sequences, FiniteSets, TLC

VARIABLES
    STATE_CACHE,    \* main.py:34  dict shop -> state (a partial function)
    shops,          \* table "shops": shop -> [access_token, uninstalled]
    settings,       \* table "settings": shop -> row
    script_tags,    \* the platform's ScriptTag list of each shop (src values)
    req,            \* the /callback coroutines: [pc, shop, token]
    last,           \* the step just taken and what it answered
    accepted,       \* history: states accepted by /callback since the last /install
    pending,        \* history: marked uninstalled, no /callback has returned 200 since
    exchanged,      \* history: shops for which a /callback has obtained an access token
    served          \* number of requests received so far that can write (all but the two GETs that only read)

vars == <<STATE_CACHE, shops, settings, script_tags, req, last, accepted, pending, exchanged, served>>

(***************************************************************************)
(* Bounds and input sets                                                   *)
(***************************************************************************)
MaxRequests == 4

Range(f) == {f[i] : i \in DOMAIN f}

ShopA == <<"a", "myshopify", "com">>
ShopB == <<"b", "myshopify", "com">>
Spoof == <<"amyshopify", "com">>

Domains == {ShopA, ShopB, Spoof}

States == {"n1", "n2"}

AccessTokens == {"shpat_1", "shpat_2"}

\* the /callback coroutines that can be in flight together, in slot order
ReqOrder == <<"r1", "r2">>

Reqs == Range(ReqOrder)

Outcomes == {"ok", "status", "error"}

(***************************************************************************)
(* Helpers                                                                 *)
(***************************************************************************)
\* dict[k] = v / db.add(row): the mapping with k bound to v
Put(f, k, v) == [x \in (DOMAIN f) \cup {k} |-> IF x = k THEN v ELSE f[x]]

\* variant: the suffix is not checked
EndsWithMyshopify_Any(shop) == TRUE

\* shop.endswith(".myshopify.com"): the last two labels, and a label before the dot
EndsWithMyshopify(shop) ==
    /\ Len(shop) > 2
    /\ SubSeq(shop, Len(shop) - 1, Len(shop)) = <<"myshopify", "com">>

\* src = f"{APP_URL}/widget.js?shop={quote(shop)}"
WidgetSrc(shop) == <<"widget.js", shop>>

\* a script tag of another app or of the theme
OtherSrc == <<"theme.js">>

\* variant: any stored state lets the callback through
OAuthStateAccepted_AnyState(cache, shop, state) == shop \in DOMAIN cache

\* saved = STATE_CACHE.get(shop); not (not saved or saved != state)
OAuthStateAccepted(cache, shop, state) ==
    /\ shop \in DOMAIN cache
    /\ cache[shop] # ""
    /\ cache[shop] = state

(***************************************************************************)
(* Texts and settings rows                                                 *)
(***************************************************************************)
\* Python's None / SQL NULL in a text position; no text holds this atom
None == <<"None">>

\* bool(t) of an optional text
Truthy(t) == t # None /\ t # <<>>

\* t or d
TextOr(t, d) == IF Truthy(t) THEN t ELSE d

\* n or d, for an integer column
IntOr(n, d) == IF n # 0 THEN n ELSE d

RECURSIVE LStrip(_)
LStrip(t) == IF t # <<>> /\ Head(t) = " " THEN LStrip(Tail(t)) ELSE t

RECURSIVE RStrip(_)
RStrip(t) == IF t # <<>> /\ t[Len(t)] = " " THEN RStrip(SubSeq(t, 1, Len(t) - 1)) ELSE t

\* str.strip()
Strip(t) == RStrip(LStrip(t))

DEFAULT_THRESHOLD_CENTS == 5000

DEFAULT_BANNER == <<"You're", " ", "$", "{", "remaining", "}", " ", "away">>

DEFAULT_BG == <<"#111827">>

DEFAULT_FG == <<"#ffffff">>

\* Settings(shop=shop) once inserted: the column defaults
DefaultSettings ==
    [threshold_cents |-> DEFAULT_THRESHOLD_CENTS,
     banner_text     |-> DEFAULT_BANNER,
     bg              |-> DEFAULT_BG,
     fg              |-> DEFAULT_FG,
     position        |-> "top",
     top_text        |-> None,
     bottom_text     |-> None]

\* payload.get(k), for the text keys
PayloadGet(payload, k) == IF k \in DOMAIN payload THEN payload[k] ELSE None

\* payload.get("threshold") or 0; the threshold is held in thousandths of a dollar
PayloadThreshold(payload) ==
    IF "threshold" \in DOMAIN payload THEN payload["threshold"] ELSE 0

\* payload.get("position"); "" when the key is absent
PayloadPosition(payload) ==
    IF "position" \in DOMAIN payload THEN payload["position"] ELSE ""

\* int(round(threshold * 100)): round-half-even of thousandths to cents
\* (the float product is exact enough away from the .xx5 boundaries)
ThresholdCents(mills) ==
    LET q == mills \div 10
        r == mills % 10
    IN  IF r < 5 THEN q
        ELSE IF r > 5 THEN q + 1
        ELSE IF q % 2 = 0 THEN q ELSE q + 1

\* variant: the payload's threshold is added to the stored one
SavedRow_AddThreshold(has_row, row, payload) ==
    [threshold_cents |-> row.threshold_cents + ThresholdCents(PayloadThreshold(payload)),
     position        |-> IF PayloadPosition(payload) = "bottom" THEN "bottom" ELSE "top",
     top_text        |-> Strip(TextOr(PayloadGet(payload, "text_top"), <<>>)),
     bottom_text     |-> Strip(TextOr(PayloadGet(payload, "text_bottom"), <<>>)),
     bg              |-> Strip(TextOr(PayloadGet(payload, "bg"), DEFAULT_BG)),
     fg              |-> Strip(TextOr(PayloadGet(payload, "fg"), DEFAULT_FG)),
     banner_text     |-> IF has_row /\ Truthy(row.banner_text)
                         THEN row.banner_text ELSE DEFAULT_BANNER]

\* the row save_settings commits, from the row it loaded (or a fresh Settings(shop=shop))
SavedRow(has_row, row, payload) ==
    [threshold_cents |-> ThresholdCents(PayloadThreshold(payload)),
     position        |-> IF PayloadPosition(payload) = "bottom" THEN "bottom" ELSE "top",
     top_text        |-> Strip(TextOr(PayloadGet(payload, "text_top"), <<>>)),
     bottom_text     |-> Strip(TextOr(PayloadGet(payload, "text_bottom"), <<>>)),
     bg              |-> Strip(TextOr(PayloadGet(payload, "bg"), DEFAULT_BG)),
     fg              |-> Strip(TextOr(PayloadGet(payload, "fg"), DEFAULT_FG)),
     banner_text     |-> IF has_row /\ Truthy(row.banner_text)
                         THEN row.banner_text ELSE DEFAULT_BANNER]

\* the JSON document get_settings returns
SettingsDocument(shop, has_row, row) ==
    IF has_row
    THEN [shop            |-> shop,
          threshold_cents |-> IntOr(row.threshold_cents, DEFAULT_THRESHOLD_CENTS),
          banner_text     |-> TextOr(row.banner_text, DEFAULT_BANNER),
          bg              |-> TextOr(row.bg, DEFAULT_BG),
          fg              |-> TextOr(row.fg, DEFAULT_FG),
          position        |-> IF row.position # "" THEN row.position ELSE "top",
          top_text        |-> row.top_text,
          bottom_text     |-> row.bottom_text]
    ELSE [shop            |-> shop,
          threshold_cents |-> DEFAULT_THRESHOLD_CENTS,
          banner_text     |-> DEFAULT_BANNER,
          bg              |-> DEFAULT_BG,
          fg              |-> DEFAULT_FG,
          position        |-> "top",
          top_text        |-> None,
          bottom_text     |-> None]

\* variant: the row's banner_text is skipped and the hard-coded text is the only fallback
WidgetLiterals_NoBannerFallback(has_row, row) ==
    IF has_row
    THEN [threshold_cents |-> IntOr(row.threshold_cents, DEFAULT_THRESHOLD_CENTS),
          bg              |-> TextOr(row.bg, DEFAULT_BG),
          fg              |-> TextOr(row.fg, DEFAULT_FG),
          position        |-> IF row.position # "" THEN row.position ELSE "top",
          top_text        |-> TextOr(row.top_text, DEFAULT_BANNER),
          bottom_text     |-> TextOr(row.bottom_text, DEFAULT_BANNER)]
    ELSE [threshold_cents |-> DEFAULT_THRESHOLD_CENTS,
          bg              |-> DEFAULT_BG,
          fg              |-> DEFAULT_FG,
          position        |-> "top",
          top_text        |-> DEFAULT_BANNER,
          bottom_text     |-> DEFAULT_BANNER]

\* the literals widget_js embeds in the script
WidgetLiterals(has_row, row) ==
    IF has_row
    THEN LET fallback == TextOr(row.banner_text, DEFAULT_BANNER)
         IN  [threshold_cents |-> IntOr(row.threshold_cents, DEFAULT_THRESHOLD_CENTS),
              bg              |-> TextOr(row.bg, DEFAULT_BG),
              fg              |-> TextOr(row.fg, DEFAULT_FG),
              position        |-> IF row.position # "" THEN row.position ELSE "top",
              top_text        |-> TextOr(row.top_text, fallback),
              bottom_text     |-> TextOr(row.bottom_text, fallback)]
    ELSE [threshold_cents |-> DEFAULT_THRESHOLD_CENTS,
          bg              |-> DEFAULT_BG,
          fg              |-> DEFAULT_FG,
          position        |-> "top",
          top_text        |-> DEFAULT_BANNER,
          bottom_text     |-> DEFAULT_BANNER]

PayloadFull ==
    [threshold   |-> 25000,
     position    |-> "bottom",
     text_top    |-> <<" ", "Hi", " ">>,
     text_bottom |-> <<>>,
     bg          |-> <<"#000000">>,
     fg          |-> <<" ", "#eeeeee">>]

PayloadSparse == [position |-> "left", text_bottom |-> <<"Add", " ", "{", "remaining", "}">>]

Payloads == {PayloadFull, PayloadSparse}

(***************************************************************************)
(* Session tokens (Authorization header) and their verification            *)
(***************************************************************************)
NoAuthorization == [scheme |-> "none"]

BasicAuthorization == [scheme |-> "basic"]

\* "Bearer <jwt>": the signing key, the time claims against now, aud, dest
Bearer(key, time, aud, dest) ==
    [scheme |-> "bearer", key |-> key, time |-> time, aud |-> aud, dest |-> dest]

Dest(scheme, host, path) == [scheme |-> scheme, host |-> host, path |-> path]

NoDest == [scheme |-> "", host |-> <<>>, path |-> <<"missing">>]

\* dest.replace("https://", "").replace("http://", ""), then a trailing "/admin" cut
DestShop(dest) ==
    IF dest.path = <<>> \/ dest.path = <<"admin">>
    THEN dest.host
    ELSE dest.host \o <<"/">> \o dest.path

\* variant: decoded with verify_exp off
VerifyJwt_NoExpiry(authorization) ==
    LET deny == [status |-> 401, shop |-> <<>>]
    IN  IF authorization.scheme # "bearer" THEN deny
        ELSE IF authorization.key # "CLIENT_SECRET" THEN deny
        ELSE IF authorization.dest = NoDest THEN deny
        ELSE IF authorization.time = "immature" THEN deny
        ELSE IF authorization.aud # "CLIENT_ID" THEN deny
        ELSE IF ~EndsWithMyshopify(DestShop(authorization.dest)) THEN deny
        ELSE [status |-> 200, shop |-> DestShop(authorization.dest)]

\* _verify_shopify_jwt_and_get_shop: [status, shop]; 200 stands for "returned"
VerifyJwt(authorization) ==
    LET deny == [status |-> 401, shop |-> <<>>]
    IN  IF authorization.scheme # "bearer" THEN deny
        ELSE IF authorization.key # "CLIENT_SECRET" THEN deny
        ELSE IF authorization.dest = NoDest THEN deny
        ELSE IF authorization.time # "valid" THEN deny
        ELSE IF authorization.aud # "CLIENT_ID" THEN deny
        ELSE IF ~EndsWithMyshopify(DestShop(authorization.dest)) THEN deny
        ELSE [status |-> 200, shop |-> DestShop(authorization.dest)]

\* variant: the uninstalled flag is not looked at
RequireShopify_IgnoreFlag(db_shops, authorization) ==
    LET v == VerifyJwt(authorization)
    IN  IF v.status # 200 THEN v
        ELSE IF v.shop \notin DOMAIN db_shops
             THEN [status |-> 403, shop |-> v.shop]
             ELSE v

\* require_shopify: [status, shop]
RequireShopify(db_shops, authorization) ==
    LET v == VerifyJwt(authorization)
    IN  IF v.status # 200 THEN v
        ELSE IF v.shop \notin DOMAIN db_shops \/ db_shops[v.shop].uninstalled
             THEN [status |-> 403, shop |-> v.shop]
             ELSE v

SessionFor(shop) == Bearer("CLIENT_SECRET", "valid", "CLIENT_ID", Dest("https://", shop, <<>>))

Authorizations ==
    {NoAuthorization, BasicAuthorization,
     SessionFor(ShopA), SessionFor(ShopB), SessionFor(Spoof),
     Bearer("forged", "valid", "CLIENT_ID", Dest("https://", ShopA, <<>>)),
     Bearer("CLIENT_SECRET", "expired", "CLIENT_ID", Dest("https://", ShopA, <<>>))}

(***************************************************************************)
(* Webhook signatures                                                      *)
(***************************************************************************)
\* base64(hmac_sha256(key, body)): a value that names its key and its body
Signature(key, body) == <<"b64", "hmac-sha256", key, body>>

NoHeader == [present |-> FALSE, ascii |-> TRUE, value |-> <<>>]

HeaderValue(v) == [present |-> TRUE, ascii |-> TRUE, value |-> v]

\* a header value holding a byte above 0x7f
NonAsciiHeader == [present |-> TRUE, ascii |-> FALSE, value |-> <<"b64", "\\xe9">>]

\* _verify_webhook_hmac: "True", "False", or the TypeError hmac.compare_digest
\* raises for a str argument that is not ASCII
VerifyWebhookHmac(hmac_header, body) ==
    IF ~hmac_header.present \/ hmac_header.value = <<>> THEN "False"
    ELSE IF ~hmac_header.ascii THEN "TypeError"
    ELSE IF Signature("CLIENT_SECRET", body) = hmac_header.value THEN "True"
    ELSE "False"

Bodies == {"{\"id\":1}", "{\"id\":2}"}

Webhook(hmac_header, body, shop_domain) ==
    [hmac |-> hmac_header, body |-> body, shop_domain |-> shop_domain]

\* x_shopify_shop_domain is <<>> when the header is absent or blank
WebhookRequests ==
    {Webhook(HeaderValue(Signature("CLIENT_SECRET", "{\"id\":1}")), "{\"id\":1}", ShopA),
     Webhook(HeaderValue(Signature("CLIENT_SECRET", "{\"id\":2}")), "{\"id\":2}", ShopB),
     Webhook(HeaderValue(Signature("CLIENT_SECRET", "{\"id\":1}")), "{\"id\":1}", <<>>),
     Webhook(HeaderValue(Signature("CLIENT_SECRET", "{\"id\":1}")), "{\"id\":2}", ShopA),
     Webhook(NoHeader, "{\"id\":2}", ShopB),
     Webhook(NonAsciiHeader, "{\"id\":1}", ShopA)}

(***************************************************************************)
(* Initial state: empty tables, empty state cache, no request in flight.   *)
(* A store may already carry a script tag that is not this app's.          *)
(***************************************************************************)
Idle == [pc |-> "idle", shop |-> <<>>, token |-> ""]

Init ==
    /\ STATE_CACHE = <<>>
    /\ shops = <<>>
    /\ settings = <<>>
    /\ script_tags = [d \in Domains |-> IF d = ShopB THEN <<OtherSrc>> ELSE <<>>]
    /\ req = [r \in Reqs |-> Idle]
    /\ last = [op |-> "start", shop |-> <<>>, status |-> 0]
    /\ accepted = [d \in Domains |-> {}]
    /\ pending = [d \in Domains |-> FALSE]
    /\ exchanged = {}
    /\ served = 0

\* a request that can write arrives
Receive ==
    /\ served < MaxRequests
    /\ served' = served + 1

(***************************************************************************)
(* GET /install                                                            *)
(***************************************************************************)
install(shop, state) ==
    /\ Receive
    /\ IF ~EndsWithMyshopify(shop)
       THEN /\ last' = [op |-> "install", shop |-> shop, status |-> 400]
            /\ UNCHANGED <<STATE_CACHE, accepted>>
       ELSE /\ STATE_CACHE' = Put(STATE_CACHE, shop, state)
            /\ accepted' = [accepted EXCEPT ![shop] = {}]
            /\ last' = [op |-> "install", shop |-> shop, status |-> 307]
    /\ UNCHANGED <<shops, settings, script_tags, req, pending, exchanged>>

(***************************************************************************)
(* GET /callback, up to its first outbound call                            *)
(***************************************************************************)
\* a new coroutine takes the first free slot
FreeSlot(r) ==
    \E i \in DOMAIN ReqOrder :
        /\ ReqOrder[i] = r
        /\ req[r].pc = "idle"
        /\ \A j \in DOMAIN ReqOrder : j < i => req[ReqOrder[j]].pc # "idle"

callback(r, shop, state) ==
    /\ FreeSlot(r)
    /\ Receive
    /\ IF OAuthStateAccepted(STATE_CACHE, shop, state)
       THEN /\ req' = [req EXCEPT ![r] = [pc |-> "exchange", shop |-> shop, token |-> ""]]
            /\ accepted' = [accepted EXCEPT ![shop] = @ \cup {state}]
            /\ last' = [op |-> "callback", rid |-> r, shop |-> shop, state |-> state,
                        status |-> 0, sent |-> "POST access_token"]
       ELSE /\ last' = [op |-> "callback", rid |-> r, shop |-> shop, state |-> state,
                        status |-> 400, sent |-> "none"]
            /\ UNCHANGED <<req, accepted>>
    /\ UNCHANGED <<STATE_CACHE, shops, settings, script_tags, pending, exchanged>>

\* shop_row = db.get(Shop, shop) ... db.commit(): the Shop table after the upsert
\* variant: a shop without a row gets none
UpsertShop_UpdateOnly(db_shops, shop, token) ==
    IF shop \in DOMAIN db_shops
    THEN [db_shops EXCEPT ![shop] = [access_token |-> token, uninstalled |-> FALSE]]
    ELSE db_shops

\* variant: a row that is there keeps its uninstalled flag
UpsertShop_KeepFlag(db_shops, shop, token) ==
    IF shop \in DOMAIN db_shops
    THEN [db_shops EXCEPT ![shop].access_token = token]
    ELSE Put(db_shops, shop, [access_token |-> token, uninstalled |-> FALSE])

UpsertShop(db_shops, shop, token) ==
    IF shop \in DOMAIN db_shops
    THEN [db_shops EXCEPT ![shop] = [access_token |-> token, uninstalled |-> FALSE]]
    ELSE Put(db_shops, shop, [access_token |-> token, uninstalled |-> FALSE])

\* variant: the callback writes a fresh row over the one that is there
EnsureSettings_Reset(db_settings, shop) ==
    IF shop \in DOMAIN db_settings
    THEN [db_settings EXCEPT ![shop] = DefaultSettings]
    ELSE Put(db_settings, shop, DefaultSettings)

\* variant: the callback adds no Settings row
EnsureSettings_Skip(db_settings, shop) == db_settings

\* if not db.get(Settings, shop): db.add(Settings(shop=shop))
EnsureSettings(db_settings, shop) ==
    IF shop \in DOMAIN db_settings THEN db_settings
    ELSE Put(db_settings, shop, DefaultSettings)

\* variant: an empty access_token is not checked for
TokenObtained_NoEmptyCheck(outcome) == outcome # "status" /\ outcome # "error"

\* _exchange_token returns a token: status 200 and a non-empty access_token
TokenObtained(outcome) == outcome # "status" /\ outcome # "error" /\ outcome # "notoken"

\* variant: a failed platform call is not surfaced
UpstreamStatus_Swallowed(outcome) == 200

\* the status a failed platform call is answered with: HTTPException(400) for a bad status, 500 for a raised error
UpstreamStatus(outcome) == IF outcome = "error" THEN 500 ELSE 400

\* _exchange_token returns or raises; on a token the rows are upserted and
\* committed and _create_script_tag sends its GET
exchange_token(r, outcome, token) ==
    /\ req[r].pc = "exchange"
    /\ LET shop == req[r].shop
       IN  IF TokenObtained(outcome)
           THEN /\ shops' = UpsertShop(shops, shop, token)
                /\ settings' = EnsureSettings(settings, shop)
                /\ req' = [req EXCEPT ![r] = [pc |-> "list", shop |-> shop, token |-> token]]
                /\ last' = [op |-> "exchange_token", rid |-> r, shop |-> shop,
                            outcome |-> outcome, status |-> 0, sent |-> "GET script_tags"]
           ELSE /\ req' = [req EXCEPT ![r] = Idle]
                /\ last' = [op |-> "exchange_token", rid |-> r, shop |-> shop,
                            outcome |-> outcome, status |-> UpstreamStatus(outcome),
                            sent |-> "none"]
                /\ UNCHANGED <<shops, settings>>
    /\ exchanged' = IF outcome = "ok" THEN exchanged \cup {req[r].shop} ELSE exchanged
    /\ UNCHANGED <<STATE_CACHE, script_tags, accepted, pending, served>>

\* variant: the listing is not searched
TagRegistered_Never(tags, shop) == FALSE

\* for tag in script_tags: if tag.get("src") == src: return src
TagRegistered(tags, shop) == WidgetSrc(shop) \in Range(tags)

\* the GET of _create_script_tag returns: a matching tag ends the step, else the POST is sent
list_script_tags(r, outcome) ==
    /\ req[r].pc = "list"
    /\ LET shop == req[r].shop
       IN  IF outcome # "ok"
           THEN /\ req' = [req EXCEPT ![r] = Idle]
                /\ last' = [op |-> "list_script_tags", rid |-> r, shop |-> shop,
                            outcome |-> outcome, status |-> UpstreamStatus(outcome),
                            sent |-> "none"]
           ELSE IF TagRegistered(script_tags[shop], shop)
           THEN /\ req' = [req EXCEPT ![r].pc = "webhook"]
                /\ last' = [op |-> "list_script_tags", rid |-> r, shop |-> shop,
                            outcome |-> outcome, status |-> 0, sent |-> "POST webhooks"]
           ELSE /\ req' = [req EXCEPT ![r].pc = "create"]
                /\ last' = [op |-> "list_script_tags", rid |-> r, shop |-> shop,
                            outcome |-> outcome, status |-> 0, sent |-> "POST script_tags"]
    /\ UNCHANGED <<STATE_CACHE, shops, settings, script_tags, accepted, pending, served, exchanged>>

\* the POST of _create_script_tag returns; the platform has added the tag when it answers 201
create_script_tag(r, outcome) ==
    /\ req[r].pc = "create"
    /\ LET shop == req[r].shop
       IN  IF outcome # "ok"
           THEN /\ req' = [req EXCEPT ![r] = Idle]
                /\ last' = [op |-> "create_script_tag", rid |-> r, shop |-> shop,
                            outcome |-> outcome, status |-> UpstreamStatus(outcome),
                            sent |-> "none"]
                /\ UNCHANGED script_tags
           ELSE /\ script_tags' = [script_tags EXCEPT ![shop] = Append(@, WidgetSrc(shop))]
                /\ req' = [req EXCEPT ![r].pc = "webhook"]
                /\ last' = [op |-> "create_script_tag", rid |-> r, shop |-> shop,
                            outcome |-> outcome, status |-> 0, sent |-> "POST webhooks"]
    /\ UNCHANGED <<STATE_CACHE, shops, settings, accepted, pending, served, exchanged>>

\* variant: a failed webhook registration is surfaced
WebhookRegistrationStatus_Surfaced(outcome) == IF outcome = "ok" THEN 200 ELSE 400

\* the status /callback answers once the webhook POST has returned or raised
WebhookRegistrationStatus(outcome) == 200

\* the webhook POST returns or raises (swallowed); /callback answers
register_webhook(r, outcome) ==
    /\ req[r].pc = "webhook"
    /\ LET shop == req[r].shop
           status == WebhookRegistrationStatus(outcome)
       IN  /\ req' = [req EXCEPT ![r] = Idle]
           /\ last' = [op |-> "register_webhook", rid |-> r, shop |-> shop,
                       outcome |-> outcome, status |-> status, sent |-> "none"]
           /\ pending' = IF status = 200 THEN [pending EXCEPT ![shop] = FALSE] ELSE pending
    /\ UNCHANGED <<STATE_CACHE, shops, settings, script_tags, accepted, served, exchanged>>

(***************************************************************************)
(* GET and POST /api/settings                                              *)
(***************************************************************************)
get_settings(authorization) ==
    /\ LET auth == RequireShopify(shops, authorization)
       IN  IF auth.status # 200
           THEN last' = [op |-> "get_settings", authorization |-> authorization,
                         shop |-> auth.shop, status |-> auth.status, rows |-> {}]
           ELSE last' = [op |-> "get_settings", authorization |-> authorization,
                         shop |-> auth.shop, status |-> 200, rows |-> {auth.shop},
                         body |-> SettingsDocument(auth.shop, auth.shop \in DOMAIN settings,
                                     IF auth.shop \in DOMAIN settings
                                     THEN settings[auth.shop] ELSE DefaultSettings)]
    /\ UNCHANGED <<STATE_CACHE, shops, settings, script_tags, req, accepted, pending, served, exchanged>>

save_settings(authorization, payload) ==
    /\ Receive
    /\ LET auth == RequireShopify(shops, authorization)
       IN  IF auth.status # 200
           THEN /\ last' = [op |-> "save_settings", authorization |-> authorization,
                            payload |-> payload, again |-> FALSE,
                            shop |-> auth.shop, status |-> auth.status, rows |-> {}]
                /\ UNCHANGED settings
           ELSE /\ settings' = Put(settings, auth.shop,
                                   SavedRow(auth.shop \in DOMAIN settings,
                                            IF auth.shop \in DOMAIN settings
                                            THEN settings[auth.shop] ELSE DefaultSettings,
                                            payload))
                /\ last' = [op |-> "save_settings", authorization |-> authorization,
                            payload |-> payload,
                            again |-> (/\ last.op = "save_settings"
                                       /\ last.status = 200
                                       /\ last.shop = auth.shop
                                       /\ last.payload = payload),
                            shop |-> auth.shop, status |-> 200, rows |-> {auth.shop}]
    /\ UNCHANGED <<STATE_CACHE, shops, script_tags, req, accepted, pending, exchanged>>

(***************************************************************************)
(* POST /webhooks/app_uninstalled                                          *)
(***************************************************************************)
\* the status the handler answers for a verdict of _verify_webhook_hmac
UninstallStatus(verdict) ==
    IF verdict = "True" THEN 200 ELSE IF verdict = "False" THEN 401 ELSE 500

\* variant: the flag is left as it was
MarkUninstalled_Noop(db_shops, shop) == db_shops

\* variant: the row is deleted instead of flagged
MarkUninstalled_Delete(db_shops, shop) ==
    [d \in (DOMAIN db_shops) \ {shop} |-> db_shops[d]]

\* row = db.get(Shop, shop); if row: row.uninstalled = True
MarkUninstalled(db_shops, shop) ==
    IF shop # <<>> /\ shop \in DOMAIN db_shops
    THEN [db_shops EXCEPT ![shop].uninstalled = TRUE]
    ELSE db_shops

app_uninstalled(w) ==
    /\ Receive
    /\ LET status == UninstallStatus(VerifyWebhookHmac(w.hmac, w.body))
       IN  /\ last' = [op |-> "app_uninstalled", request |-> w, shop |-> w.shop_domain,
                       status |-> status]
           /\ IF status = 200
              THEN /\ shops' = MarkUninstalled(shops, w.shop_domain)
                   /\ pending' = IF w.shop_domain \in DOMAIN shops
                                 THEN [pending EXCEPT ![w.shop_domain] = TRUE]
                                 ELSE pending
              ELSE UNCHANGED <<shops, pending>>
    /\ UNCHANGED <<STATE_CACHE, settings, script_tags, req, accepted, exchanged>>

(***************************************************************************)
(* GET /widget.js                                                          *)
(***************************************************************************)
widget_js(shop) ==
    /\ last' = [op |-> "widget_js", shop |-> shop, status |-> 200,
                body |-> WidgetLiterals(shop # <<>> /\ shop \in DOMAIN settings,
                            IF shop # <<>> /\ shop \in DOMAIN settings
                            THEN settings[shop] ELSE DefaultSettings)]
    /\ UNCHANGED <<STATE_CACHE, shops, settings, script_tags, req, accepted, pending, served, exchanged>>

(***************************************************************************)
(* The generated script in the storefront page                             *)
(***************************************************************************)
\* the answer of fetch('/cart.js'): it fails, or has a status, and a body whose
\* total_price is a number or is not
CartFetch(outcome, numeric, total_price) ==
    [outcome |-> outcome, numeric |-> numeric, total_price |-> total_price]

CartTotals == {0, 1200, 2500, 3000, 5000, 6000}

CartFetches ==
    {CartFetch("ok", TRUE, t) : t \in CartTotals}
        \cup {CartFetch("ok", FALSE, 0), CartFetch("status", TRUE, 3000),
              CartFetch("error", FALSE, 0)}

\* the locale Intl.NumberFormat(undefined, ...) formats with: symbol first or last
Locales == {"en-US", "de-DE"}

\* (cents / 100) with two decimals, digit by digit
Amount(cents) ==
    <<ToString(cents \div 100), ".", ToString((cents % 100) \div 10), ToString(cents % 10)>>

\* formatMoney(cents): the amount as a currency text
FormatMoney(cents, locale) ==
    IF locale = "en-US" THEN <<"$">> \o Amount(cents) ELSE Amount(cents) \o <<" ", "$">>

\* /remaining/i on one atom
IsRemaining(a) == a \in {"remaining", "Remaining", "REMAINING"}

\* the first index from i on that holds no white space
RECURSIVE SkipSpaces(_, _)
SkipSpaces(t, i) == IF i <= Len(t) /\ t[i] = " " THEN SkipSpaces(t, i + 1) ELSE i

\* /{\s*remaining\s*}/i anchored at the head of t: the index of the closing brace, or 0
MatchEnd(t) ==
    IF t = <<>> \/ Head(t) # "{" THEN 0
    ELSE LET i == SkipSpaces(t, 2)
         IN  IF i > Len(t) \/ ~IsRemaining(t[i]) THEN 0
             ELSE LET j == SkipSpaces(t, i + 1)
                  IN  IF j <= Len(t) /\ t[j] = "}" THEN j ELSE 0

\* fillTemplate(tpl, vars): tpl.replace(/{\s*remaining\s*}/gi, vars.remaining)
RECURSIVE FillTemplate(_, _)
FillTemplate(tpl, remaining) ==
    IF tpl = <<>> THEN <<>>
    ELSE IF MatchEnd(tpl) > 0
         THEN remaining \o FillTemplate(SubSeq(tpl, MatchEnd(tpl) + 1, Len(tpl)), remaining)
         ELSE <<Head(tpl)>> \o FillTemplate(Tail(tpl), remaining)

\* getCartTotalCents(): total_price when the fetch is ok and it is a number, else 0
GetCartTotalCents(fetch) ==
    IF fetch.outcome = "ok" /\ fetch.numeric THEN fetch.total_price ELSE 0

\* a ratio n/d, d > 0, and Math.min / Math.max on ratios
Ratio(n, d) == [num |-> n, den |-> d]

RatioLeq(a, b) == a.num * b.den <= b.num * a.den

RatioMin(a, b) == IF RatioLeq(a, b) THEN a ELSE b

RatioMax(a, b) == IF RatioLeq(b, a) THEN a ELSE b

\* variant: the ratio is not clamped
Pct_Unclamped(totalCents, threshold_cents) == Ratio(totalCents, threshold_cents)

\* Math.max(0, Math.min(1, totalCents / THRESHOLD_CENTS))
Pct(totalCents, threshold_cents) ==
    RatioMax(Ratio(0, 1), RatioMin(Ratio(1, 1), Ratio(totalCents, threshold_cents)))

\* Math.max(0, THRESHOLD_CENTS - totalCents)
RemainingCents(totalCents, threshold_cents) ==
    IF threshold_cents - totalCents > 0 THEN threshold_cents - totalCents ELSE 0

\* var BANNER_TEXT = POSITION === 'bottom' ? BOTTOM_TEXT : TOP_TEXT
BannerText(literals) ==
    IF literals.position = "bottom" THEN literals.bottom_text ELSE literals.top_text

UNLOCKED_TEXT == <<"You unlocked FREE shipping!">>

\* updateBar(totalCents) on the mounted bar: what it leaves on the page
UpdateBar(literals, totalCents, locale) ==
    LET remainingCents == RemainingCents(totalCents, literals.threshold_cents)
    IN  [remaining |-> remainingCents,
         pct       |-> Pct(totalCents, literals.threshold_cents),
         unlocked  |-> ~(remainingCents > 0),
         msg       |-> IF remainingCents > 0
                       THEN FillTemplate(BannerText(literals), FormatMoney(remainingCents, locale))
                       ELSE UNLOCKED_TEXT]

\* tick(), first on load and then every POLL_MS, in a page that has loaded the
\* script last answered and still shows the bar
tick(fetch, locale) ==
    /\ last.op \in {"widget_js", "tick"}
    /\ LET total == GetCartTotalCents(fetch)
       IN  last' = [op |-> "tick", shop |-> last.shop, status |-> 200, body |-> last.body,
                    fetch |-> fetch, locale |-> locale, total |-> total,
                    bar |-> UpdateBar(last.body, total, locale)]
    /\ UNCHANGED <<STATE_CACHE, shops, settings, script_tags, req, accepted, pending, exchanged, served>>

\* the click listener of #fsb-close removes the bar: later ticks find no #fsb-msg and return
close ==
    /\ last.op \in {"widget_js", "tick"}
    /\ last' = [op |-> "close", shop |-> last.shop, status |-> 200, body |-> last.body]
    /\ UNCHANGED <<STATE_CACHE, shops, settings, script_tags, req, accepted, pending, exchanged, served>>

(***************************************************************************)
(* Specifications                                                          *)
(***************************************************************************)
Next ==
    \/ \E shop \in Domains, state \in States : install(shop, state)
    \/ \E r \in Reqs, shop \in Domains, state \in States : callback(r, shop, state)
    \/ \E r \in Reqs, outcome \in Outcomes \cup {"notoken"}, token \in AccessTokens :
          exchange_token(r, outcome, token)
    \/ \E r \in Reqs, outcome \in Outcomes : list_script_tags(r, outcome)
    \/ \E r \in Reqs, outcome \in Outcomes : create_script_tag(r, outcome)
    \/ \E r \in Reqs, outcome \in Outcomes : register_webhook(r, outcome)
    \/ \E authorization \in Authorizations : get_settings(authorization)
    \/ \E authorization \in Authorizations, payload \in Payloads :
          save_settings(authorization, payload)
    \/ \E w \in WebhookRequests : app_uninstalled(w)
    \/ \E shop \in Domains \cup {<<>>} : widget_js(shop)

Spec == Init /\ [][Next]_vars

\* the same program when no /callback arrives while another is still running
NoCallbackRunning == \A r \in Reqs : req[r].pc = "idle"

NextSeq ==
    \/ \E shop \in Domains, state \in States : install(shop, state)
    \/ \E r \in Reqs, shop \in Domains, state \in States :
          NoCallbackRunning /\ callback(r, shop, state)
    \/ \E r \in Reqs, outcome \in Outcomes \cup {"notoken"}, token \in AccessTokens :
          exchange_token(r, outcome, token)
    \/ \E r \in Reqs, outcome \in Outcomes : list_script_tags(r, outcome)
    \/ \E r \in Reqs, outcome \in Outcomes : create_script_tag(r, outcome)
    \/ \E r \in Reqs, outcome \in Outcomes : register_webhook(r, outcome)
    \/ \E authorization \in Authorizations : get_settings(authorization)
    \/ \E authorization \in Authorizations, payload \in Payloads :
          save_settings(authorization, payload)
    \/ \E w \in WebhookRequests : app_uninstalled(w)
    \/ \E shop \in Domains \cup {<<>>} : widget_js(shop)

SpecSeq == Init /\ [][NextSeq]_vars

(***************************************************************************)
(* Properties                                                              *)
(***************************************************************************)
SettingsOps == {"get_settings", "save_settings"}

\* the widget tags of shop d on the platform
WidgetTags(d) == {i \in DOMAIN script_tags[d] : script_tags[d][i] = WidgetSrc(d)}

\* a session token that is present, well formed, signed with the app secret and not expired
GoodSession(a) == a.scheme = "bearer" /\ a.key = "CLIENT_SECRET" /\ a.time # "expired"

\* the webhook's signature header is the base64 HMAC-SHA256 of its body under the secret
GoodSignature(w) == w.hmac.present /\ w.hmac.value = Signature("CLIENT_SECRET", w.body)

\* the uninstalled flag of d is cleared only by a /callback for d that has just got its token
FlagClearedOnlyByUpsert ==
    \A d \in DOMAIN shops :
        (shops[d].uninstalled /\ ~shops'[d].uninstalled) =>
            (last'.op = "exchange_token" /\ last'.shop = d /\ last'.outcome = "ok")

\* C1: a state issued by /install is accepted by /callback once: a callback is not
\* accepted with a state already accepted for that shop since its last /install.
C1_StateAcceptedOnce ==
    [][(last'.op = "callback" /\ last'.status = 0)
          => last'.state \notin accepted[last'.shop]]_vars

\* C2: a /callback whose shop has no stored state, or a stored state other than the
\* one given, is answered 400, sends no token exchange and changes neither table,
\* nor the state cache, nor starts a run.
C2_RejectedCallbackChangesNothing ==
    [][(/\ last'.op = "callback"
        /\ (last'.shop \notin DOMAIN STATE_CACHE \/ STATE_CACHE[last'.shop] # last'.state))
          => (/\ last'.status = 400
              /\ last'.sent = "none"
              /\ UNCHANGED <<shops, settings, STATE_CACHE, script_tags, req>>)]_vars

C2_Witness ==
    /\ last.op = "callback"
    /\ last.status = 400
    /\ last.shop \in DOMAIN STATE_CACHE
    /\ STATE_CACHE[last.shop] # last.state
    /\ last.shop \in DOMAIN shops

\* C3: when /callback runs do not overlap, every shop has at most one script tag
\* whose src is the widget URL of that shop, and a run whose listing holds such a
\* tag sends no POST creating one.
C3_AtMostOneWidgetTag ==
    /\ \A d \in Domains : Cardinality(WidgetTags(d)) <= 1
    /\ (/\ last.op = "list_script_tags"
        /\ last.outcome = "ok"
        /\ WidgetTags(last.shop) # {}) => last.sent = "POST webhooks"

C3_Witness ==
    /\ last.op = "list_script_tags"
    /\ last.sent = "POST webhooks"
    /\ Cardinality(WidgetTags(last.shop)) = 1
    /\ Len(script_tags[last.shop]) > 1

\* C4: a settings call whose session token is missing, malformed, badly signed or
\* expired is answered 401, touches no Settings row and writes none; a call with a
\* good token whose dest names shop s touches and changes no row but that of s, and
\* a GET answers with the document of the row of s.
C4_SettingsOnlyOfTokenShop ==
    [][last'.op \in SettingsOps =>
          LET a == last'.authorization
          IN  IF ~GoodSession(a)
              THEN last'.status = 401 /\ last'.rows = {} /\ settings' = settings
              ELSE LET s == a.dest.host
                   IN  /\ last'.rows \subseteq {s}
                       /\ DOMAIN settings' \subseteq (DOMAIN settings) \cup {s}
                       /\ \A d \in (DOMAIN settings) \ {s} :
                              d \in DOMAIN settings' /\ settings'[d] = settings[d]
                       /\ (last'.op = "get_settings" /\ last'.status = 200) =>
                              (/\ s \in DOMAIN settings
                               /\ last'.body = SettingsDocument(s, TRUE, settings[s]))]_vars

C4_Witness ==
    /\ last.op = "get_settings"
    /\ last.status = 200
    /\ last.shop = ShopA
    /\ ShopB \in DOMAIN settings

\* C5 as stated: while a shop is marked uninstalled and no /callback for it has
\* returned 200 since, or while it has no Shop record, a settings call with a good
\* token for it is answered 403 and changes nothing.
C5_RejectedUntilInstallSucceeds ==
    [][(/\ last'.op \in SettingsOps
        /\ GoodSession(last'.authorization)
        /\ EndsWithMyshopify(last'.authorization.dest.host)
        /\ (\/ last'.authorization.dest.host \notin DOMAIN shops
            \/ pending[last'.authorization.dest.host]))
          => (last'.status = 403 /\ UNCHANGED <<shops, settings>>)]_vars

\* C5 amended: while a shop's Shop record is flagged uninstalled, or it has none, a
\* settings call with a good token for it is answered 403 and changes nothing; and
\* the flag is cleared only by a /callback for that shop at the commit that follows
\* its token exchange.
C5_RejectedWhileFlagged ==
    [][/\ (/\ last'.op \in SettingsOps
           /\ GoodSession(last'.authorization)
           /\ EndsWithMyshopify(last'.authorization.dest.host)
           /\ (\/ last'.authorization.dest.host \notin DOMAIN shops
               \/ shops[last'.authorization.dest.host].uninstalled))
             => (/\ last'.status = 403
                 /\ UNCHANGED <<shops, settings, STATE_CACHE, script_tags>>)
       /\ FlagClearedOnlyByUpsert]_vars

C5_Witness ==
    /\ last.op = "save_settings"
    /\ last.status = 403
    /\ last.shop \in DOMAIN shops
    /\ shops[last.shop].uninstalled

\* C6: an uninstall webhook whose signature header is missing or is not the HMAC of
\* its body is answered 401 and changes no Shop or Settings record.
C6_BadSignatureIs401 ==
    [][(last'.op = "app_uninstalled" /\ ~GoodSignature(last'.request))
          => (last'.status = 401 /\ UNCHANGED <<shops, settings>>)]_vars

\* C7 as stated: from an accepted uninstall webhook for a shop with a Shop record
\* until a /callback for that shop has returned 200, the record is flagged uninstalled.
C7_FlaggedUntilInstallSucceeds ==
    \A d \in Domains : pending[d] => (d \in DOMAIN shops /\ shops[d].uninstalled)

\* C7 amended: an accepted uninstall webhook naming a shop with a Shop record leaves
\* it flagged uninstalled, and the flag is cleared only by a /callback for that shop
\* at the commit that follows its token exchange.
C7_FlaggedUntilUpsert ==
    [][/\ (/\ last'.op = "app_uninstalled"
           /\ last'.status = 200
           /\ last'.shop \in DOMAIN shops) => shops'[last'.shop].uninstalled
       /\ FlagClearedOnlyByUpsert]_vars

C7_Witness ==
    /\ last.op = "app_uninstalled"
    /\ last.status = 200
    /\ last.shop \in DOMAIN shops
    /\ shops[last.shop].uninstalled

\* C8: no step removes a Shop record or a Settings row.
C8_RowsOnlyGrow ==
    [][/\ DOMAIN shops \subseteq DOMAIN shops'
       /\ DOMAIN settings \subseteq DOMAIN settings']_vars

C8_Witness ==
    /\ last.op = "app_uninstalled"
    /\ last.status = 200
    /\ last.shop \in DOMAIN shops
    /\ last.shop \in DOMAIN settings

\* C9: when the webhook registration of a /callback fails, the callback still
\* answers 200, and the Shop record, the Settings row and the script tag of the run
\* are there and unchanged.
C9_WebhookFailureSwallowed ==
    [][(last'.op = "register_webhook" /\ last'.outcome # "ok")
          => (/\ last'.status = 200
              /\ UNCHANGED <<shops, settings, script_tags>>
              /\ last'.shop \in DOMAIN shops'
              /\ last'.shop \in DOMAIN settings'
              /\ WidgetSrc(last'.shop) \in Range(script_tags'[last'.shop]))]_vars

C9_Witness ==
    /\ last.op = "register_webhook"
    /\ last.outcome = "error"
    /\ last.status = 200

\* C10: when the token exchange fails or returns no access token, the callback
\* answers an error, ends there (no script-tag or webhook call is sent) and no Shop
\* or Settings record is created or changed.
C10_FailedExchangeAborts ==
    [][(last'.op = "exchange_token" /\ last'.outcome # "ok")
          => (/\ last'.status \in {400, 500}
              /\ last'.sent = "none"
              /\ req'[last'.rid].pc = "idle"
              /\ UNCHANGED <<shops, settings, script_tags>>)]_vars

C10_Witness ==
    /\ last.op = "exchange_token"
    /\ last.outcome = "notoken"
    /\ last.status = 400
    /\ shops = <<>>

\* C11: save_settings is idempotent: an accepted save of a payload that directly
\* follows an accepted save of the same payload for the same shop leaves the stored
\* Settings row as the first save left it, and with it what widget_js embeds for
\* that shop.
C11_SaveTwiceSameAsOnce ==
    [][(/\ last.op = "save_settings" /\ last.status = 200
        /\ last'.op = "save_settings" /\ last'.status = 200
        /\ last'.shop = last.shop
        /\ last'.payload = last.payload)
          => (/\ settings'[last.shop] = settings[last.shop]
              /\ settings'[last.shop] = SavedRow(TRUE, settings[last.shop], last.payload)
              /\ WidgetLiterals(TRUE, settings'[last.shop])
                    = WidgetLiterals(TRUE, settings[last.shop]))]_vars

C11_Witness ==
    /\ last.op = "save_settings"
    /\ last.status = 200
    /\ last.again
    /\ last.payload = PayloadFull
    /\ settings[last.shop] = SavedRow(TRUE, DefaultSettings, PayloadFull)

(***************************************************************************)
(* The program from the state one complete installation of shop a leaves:  *)
(* /install with state n1, then a /callback all of whose platform calls    *)
(* succeeded.  The request budget counts from here.                        *)
(***************************************************************************)
InitInstalled ==
    /\ STATE_CACHE = Put(<<>>, ShopA, "n1")
    /\ shops = UpsertShop(<<>>, ShopA, "shpat_1")
    /\ settings = EnsureSettings(<<>>, ShopA)
    /\ script_tags = [d \in Domains |-> IF d = ShopA THEN <<WidgetSrc(ShopA)>>
                                        ELSE IF d = ShopB THEN <<OtherSrc>> ELSE <<>>]
    /\ req = [r \in Reqs |-> Idle]
    /\ last = [op |-> "register_webhook", rid |-> "r1", shop |-> ShopA,
               outcome |-> "ok", status |-> 200, sent |-> "none"]
    /\ accepted = [d \in Domains |-> IF d = ShopA THEN {"n1"} ELSE {}]
    /\ pending = [d \in Domains |-> FALSE]
    /\ exchanged = {ShopA}
    /\ served = 0

\* the requests that follow: installations of shops a and b, and the settings
\* calls and the widget of shop a
NextInstalled ==
    \/ \E shop \in {ShopA, ShopB}, state \in States : install(shop, state)
    \/ \E r \in Reqs, shop \in {ShopA, ShopB}, state \in States : callback(r, shop, state)
    \/ \E r \in Reqs, outcome \in Outcomes \cup {"notoken"}, token \in AccessTokens :
          exchange_token(r, outcome, token)
    \/ \E r \in Reqs, outcome \in Outcomes : list_script_tags(r, outcome)
    \/ \E r \in Reqs, outcome \in Outcomes : create_script_tag(r, outcome)
    \/ \E r \in Reqs, outcome \in Outcomes : register_webhook(r, outcome)
    \/ get_settings(SessionFor(ShopA))
    \/ \E payload \in Payloads : save_settings(SessionFor(ShopA), payload)
    \/ \E w \in WebhookRequests : app_uninstalled(w)
    \/ widget_js(ShopA)

SpecInstalled == InitInstalled /\ [][NextInstalled]_vars

(***************************************************************************)
(* The settings API and the widget on a database an earlier run has left:  *)
(* shop a is installed, and its Settings row is the default row or a row   *)
(* written before top_text and bottom_text were added (main.py:68-79),     *)
(* whose banner_text is the merchant's own text or empty.                  *)
(***************************************************************************)
CUSTOM_BANNER == <<"Spend", " ", "{", " ", "Remaining", " ", "}", " ", "more">>

StoredRows == {[DefaultSettings EXCEPT !.banner_text = b] : b \in {DEFAULT_BANNER, CUSTOM_BANNER, <<>>}}

\* a payload whose threshold is 0
PayloadZero ==
    [threshold   |-> 0,
     position    |-> "top",
     text_top    |-> <<"Free", " ", "shipping">>,
     text_bottom |-> <<>>,
     bg          |-> <<"#000000">>,
     fg          |-> <<"#ffffff">>]

AdminPayloads == Payloads \cup {PayloadZero}

InitWidget ==
    /\ STATE_CACHE = <<>>
    /\ shops = Put(<<>>, ShopA, [access_token |-> "shpat_1", uninstalled |-> FALSE])
    /\ \E row \in StoredRows : settings = Put(<<>>, ShopA, row)
    /\ script_tags = [d \in Domains |-> IF d = ShopA THEN <<WidgetSrc(ShopA)>> ELSE <<>>]
    /\ req = [r \in Reqs |-> Idle]
    /\ last = [op |-> "start", shop |-> <<>>, status |-> 0]
    /\ accepted = [d \in Domains |-> {}]
    /\ pending = [d \in Domains |-> FALSE]
    /\ exchanged = {ShopA}
    /\ served = 0

NextWidget ==
    \/ \E authorization \in Authorizations : get_settings(authorization)
    \/ \E authorization \in Authorizations, payload \in AdminPayloads :
          save_settings(authorization, payload)
    \/ \E shop \in Domains \cup {<<>>} : widget_js(shop)
    \/ \E fetch \in CartFetches, locale \in Locales : tick(fetch, locale)
    \/ close

SpecWidget == InitWidget /\ [][NextWidget]_vars

\* the template tpl without the currency symbols written directly before a placeholder
RECURSIVE WithoutSymbol(_)
WithoutSymbol(tpl) ==
    IF tpl = <<>> THEN <<>>
    ELSE IF Head(tpl) = "$" /\ MatchEnd(Tail(tpl)) > 0
         THEN WithoutSymbol(Tail(tpl))
         ELSE <<Head(tpl)>> \o WithoutSymbol(Tail(tpl))

\* C12: for every remaining amount the bar shows, for a template that writes a
\* currency symbol directly before the placeholder, the text the same template
\* without that symbol renders to: the currency symbol is not doubled.
C12_SymbolBeforePlaceholderNotDoubled ==
    (last.op = "tick" /\ ~last.bar.unlocked)
        => last.bar.msg = FillTemplate(WithoutSymbol(BannerText(last.body)),
                                       FormatMoney(last.bar.remaining, last.locale))

\* C13: for an embedded threshold above 0 and a cart total of at least 0, a tick
\* leaves remaining = max(0, threshold - total) and progress = total / threshold
\* clamped to [0, 1], and shows the unlocked message exactly when remaining is 0;
\* a cart fetch that fails, has a bad status or no numeric total counts as total 0.
C13_RemainingAndProgress ==
    (last.op = "tick" /\ last.body.threshold_cents > 0 /\ last.total >= 0)
        => LET threshold == last.body.threshold_cents
               total == last.total
               bar == last.bar
           IN  /\ total = (IF last.fetch.outcome = "ok" /\ last.fetch.numeric
                           THEN last.fetch.total_price ELSE 0)
               /\ bar.remaining = (IF total < threshold THEN threshold - total ELSE 0)
               /\ bar.pct.den > 0
               /\ 0 <= bar.pct.num /\ bar.pct.num <= bar.pct.den
               /\ IF total <= threshold
                  THEN bar.pct.num * threshold = total * bar.pct.den
                  ELSE bar.pct.num = bar.pct.den
               /\ bar.unlocked <=> (bar.remaining = 0)
               /\ bar.unlocked <=> (bar.msg = UNLOCKED_TEXT)

C13_Witness ==
    /\ last.op = "tick"
    /\ last.body.threshold_cents = 5000
    /\ last.fetch = CartFetch("ok", TRUE, 6000)
    /\ last.bar.remaining = 0
    /\ last.bar.pct = Ratio(1, 1)
    /\ last.bar.unlocked

\* the text widget_js is to embed for one position of a row
TextOfPosition(row, specific) ==
    IF specific # None /\ specific # <<>> THEN specific
    ELSE IF row.banner_text # None /\ row.banner_text # <<>> THEN row.banner_text
    ELSE DEFAULT_BANNER

\* C14: widget_js always answers 200 with a script.  Without a shop parameter, or
\* for a shop without a Settings row, the script embeds the hard-coded defaults
\* (threshold 5000, position top, default colours and text).  With a row, the text
\* of each position is the row's text for that position when it is not empty, else
\* the row's banner_text when it is not empty, else the hard-coded text.
C14_WidgetDefaultsAndFallback ==
    last.op = "widget_js"
        => /\ last.status = 200
           /\ IF last.shop = <<>> \/ last.shop \notin DOMAIN settings
              THEN last.body = [threshold_cents |-> 5000,
                                position        |-> "top",
                                bg              |-> DEFAULT_BG,
                                fg              |-> DEFAULT_FG,
                                top_text        |-> DEFAULT_BANNER,
                                bottom_text     |-> DEFAULT_BANNER]
              ELSE /\ last.body.top_text
                        = TextOfPosition(settings[last.shop], settings[last.shop].top_text)
                   /\ last.body.bottom_text
                        = TextOfPosition(settings[last.shop], settings[last.shop].bottom_text)

C14_Witness ==
    /\ last.op = "widget_js"
    /\ last.shop = ShopA
    /\ settings[ShopA].banner_text = CUSTOM_BANNER
    /\ settings[ShopA].top_text = <<>>
    /\ last.body.top_text = CUSTOM_BANNER
    /\ last.body.bottom_text = PayloadSparse.text_bottom

\* C15: a Shop record exists for a domain if and only if a /callback for that domain
\* has at least once obtained an access token from the token exchange.
C15_ShopRecordIffTokenObtained ==
    \A d \in Domains : (d \in DOMAIN shops) <=> (d \in exchanged)

C15_Witness ==
    /\ ShopA \in DOMAIN shops
    /\ ShopA \in exchanged
    /\ last.op = "exchange_token"
    /\ last.shop = ShopB
    /\ last.outcome = "notoken"
    /\ ShopB \notin DOMAIN shops

\* C16: a get_settings that is accepted directly after an accepted save_settings of
\* the same shop answers with what the save stored: threshold_cents, position,
\* top_text, bottom_text, bg and fg of the document are those of the stored row,
\* also when the threshold saved is 0.
C16_GetReturnsWhatSaveStored ==
    [][(/\ last.op = "save_settings" /\ last.status = 200
        /\ "threshold" \in DOMAIN last.payload /\ last.payload.threshold >= 0
        /\ last'.op = "get_settings" /\ last'.status = 200
        /\ last'.shop = last.shop)
          => LET row == settings[last.shop]
                 doc == last'.body
             IN  /\ row = SavedRow(TRUE, row, last.payload)
                 /\ doc.threshold_cents = row.threshold_cents
                 /\ doc.position = row.position
                 /\ doc.top_text = row.top_text
                 /\ doc.bottom_text = row.bottom_text
                 /\ doc.bg = row.bg
                 /\ doc.fg = row.fg]_vars

\* the check of require_shopify passes for d
Installed(d) == d \in DOMAIN shops /\ ~shops[d].uninstalled

\* no /callback for d is running
NoRunFor(d) == \A r \in Reqs : req[r].pc = "idle" \/ req[r].shop # d

\* C17 as stated: a shop that passes the installed check, with no /callback for it
\* still running, has had its script tag ensured (the platform lists the widget tag
\* for it): a run whose listing or creation fails does not leave it installed.
C17_InstalledImpliesScriptTagEnsured ==
    \A d \in Domains : (Installed(d) /\ NoRunFor(d)) => WidgetTags(d) # {}

\* C17: a shop that passes the installed check has had an access token obtained by
\* a /callback; and a /callback whose script-tag listing or creation fails answers
\* 400 or 500 and ends there, leaving the Shop record and the Settings row as its
\* upsert committed them and the platform's tags as they were.
C17_InstalledAfterTokenExchanged ==
    /\ [](\A d \in Domains : Installed(d) => d \in exchanged)
    /\ [][(last'.op \in {"list_script_tags", "create_script_tag"} /\ last'.outcome # "ok")
             => (/\ last'.status \in {400, 500}
                 /\ last'.sent = "none"
                 /\ req'[last'.rid].pc = "idle"
                 /\ last'.shop \in exchanged
                 /\ last'.shop \in DOMAIN shops
                 /\ UNCHANGED <<shops, settings, script_tags>>)]_vars

C17_Witness ==
    /\ last.op = "list_script_tags"
    /\ last.outcome = "status"
    /\ last.status = 400
    /\ Installed(last.shop)
    /\ NoRunFor(last.shop)
    /\ WidgetTags(last.shop) = {}

\* C18: also when /callback runs for one shop overlap, interleaved at their outbound
\* calls, the platform lists at most one script tag whose src is the widget URL of
\* that shop.
C18_OverlappingRunsOneWidgetTag ==
    \A d \in Domains : \A i, j \in WidgetTags(d) : i = j

\* C19: a Settings row that exists is changed by no step but an accepted
\* save_settings of its shop: /install, every step of a /callback for a shop that
\* has a row, the uninstall webhook, get_settings and widget_js leave it as it is,
\* so the saved settings of a shop are the same after uninstall and re-install.
C19_RowsChangeOnlyBySave ==
    [][\A d \in DOMAIN settings :
          /\ d \in DOMAIN settings'
          /\ settings'[d] # settings[d]
                => (last'.op = "save_settings" /\ last'.status = 200 /\ last'.shop = d)]_vars

C19_Witness ==
    /\ last.op = "exchange_token"
    /\ last.outcome = "ok"
    /\ last.shop = ShopA
    /\ pending[ShopA]
    /\ ~shops[ShopA].uninstalled
    /\ settings[ShopA] = SavedRow(TRUE, DefaultSettings, PayloadFull)

\* C20: every domain that has a Shop record has a Settings row (one: the table is
\* keyed by shop), and no Settings row is there for a domain without a Shop record.
C20_ShopsAndSettingsPaired ==
    /\ \A d \in DOMAIN shops : d \in DOMAIN settings
    /\ \A d \in DOMAIN settings : d \in DOMAIN shops

C20_Witness ==
    /\ last.op = "exchange_token"
    /\ last.outcome = "ok"
    /\ DOMAIN shops = {ShopA, ShopB}
    /\ DOMAIN settings = {ShopA, ShopB}

\* C21 as stated: when a /callback ends successfully, the Shop record of its shop
\* holds the access token this run's exchange returned and uninstalled = false.
C21_SuccessfulRunLeavesItsToken ==
    [][last'.op = "register_webhook"
          => (/\ last'.shop \in DOMAIN shops'
              /\ shops'[last'.shop]
                   = [access_token |-> req[last'.rid].token, uninstalled |-> FALSE])]_vars

\* C21: the upsert a /callback commits when its token exchange has returned leaves
\* the Shop record of its shop holding that token and uninstalled = false, whether
\* the record was absent, installed or marked uninstalled before; the record is
\* still there when the run ends.
C21_UpsertStoresTokenAndClearsFlag ==
    [][/\ (last'.op = "exchange_token" /\ last'.outcome = "ok")
          => (/\ last'.shop \in DOMAIN shops'
              /\ shops'[last'.shop]
                   = [access_token |-> req'[last'.rid].token, uninstalled |-> FALSE]
              /\ req'[last'.rid].token \in AccessTokens)
       /\ last'.op = "register_webhook" => last'.shop \in DOMAIN shops']_vars

C21_Witness ==
    /\ last.op = "exchange_token"
    /\ last.outcome = "ok"
    /\ pending[last.shop]
    /\ req[last.rid].token = "shpat_2"
    /\ shops[last.shop] = [access_token |-> "shpat_2", uninstalled |-> FALSE]

\* the domain d is a label followed by .myshopify.com
HasStoreSuffix(d) ==
    /\ Len(d) >= 3
    /\ d[Len(d) - 1] = "myshopify"
    /\ d[Len(d)] = "com"

\* C22: every domain that has a Shop record or a Settings row ends with
\* .myshopify.com, although /callback does not check its shop parameter: the state
\* cache holds states only for domains /install has validated, so a /callback is
\* accepted, and runs, only for such a domain.
C22_StoredDomainsHaveStoreSuffix ==
    /\ \A d \in (DOMAIN shops) \cup (DOMAIN settings) : HasStoreSuffix(d)
    /\ \A d \in DOMAIN STATE_CACHE : HasStoreSuffix(d)
    /\ \A r \in Reqs : req[r].pc # "idle" => HasStoreSuffix(req[r].shop)
    /\ (last.op = "callback" /\ last.status = 0) => HasStoreSuffix(last.shop)

C22_Witness ==
    /\ last.op = "callback"
    /\ last.shop = Spoof
    /\ last.status = 400
    /\ Spoof \notin DOMAIN STATE_CACHE
    /\ DOMAIN shops = {ShopA}
    /\ DOMAIN settings = {ShopA}

====
